---- MODULE Spec2Model ----
(***************************************************************************)
(* Model of the librarian reservation store (reserve.go) and of the HTTP   *)
(* handlers that call it.                                                  *)
(*                                                                         *)
(* Strings are sequences of symbols.  The symbol " " is a blank; every     *)
(* other symbol stands for a run of non-blank characters.  The log file is *)
(* the sequence of its lines, each line a string without its newline; a    *)
(* file that does not end in a newline has a last element that ends in the *)
(* symbol NoNewline.  A Go error is the string of its message; nil is the  *)
(* empty string (no message of the program is empty).                      *)
(***************************************************************************)
EXTENDS Integers, Sequences, FiniteSets, TLC

VARIABLES
    vchk,     \* library.vchk: uuid -> (label -> client)
    log,      \* content of the log file library.fname, one string per line
    werr,     \* the bufio.Writer library.w carries a (sticky) write error
    now,      \* number of time.Now() readings taken by write
    up,       \* the process is serving (initLibrary returned nil)
    ret,      \* the last completed request and what it returned
    hist,     \* history variable: the runtime mutating calls that returned nil, in the order they took effect
    pc,       \* per request goroutine: position in its handler
    req,      \* per request goroutine: the handler's arguments
    loc,      \* per request goroutine: the handler's local variables
    wlock,    \* library.RWMutex: the goroutines holding the write lock
    logged,   \* history variable: positions in hist of the calls whose line reached the log, in file order
    seen      \* history variable: per goroutine, the values its uuid's map took since getCheckouts

vars == <<vchk, log, werr, now, up, ret, hist, pc, req, loc, wlock, logged, seen>>

----------------------------------------------------------------------------
(* Bounds *)

\* runtime mutating calls that return nil in one behaviour
MaxOps == 2

\* lines of a log file the process is started on
MaxLines == 2

----------------------------------------------------------------------------
(* Strings *)

SP == " "

Str(s) == <<s>>

DigitText == <<"0", "1", "2", "3", "4", "5", "6", "7", "8", "9">>

Digits == {DigitText[i] : i \in 1..Len(DigitText)}

DigitVal(d) == (CHOOSE i \in 1..Len(DigitText) : DigitText[i] = d) - 1

\* fmt's %d verb, printing
RECURSIVE FormatUint(_)
FormatUint(n) ==
    IF n < 10 THEN <<DigitText[n + 1]>>
    ELSE FormatUint(n \div 10) \o <<DigitText[(n % 10) + 1]>>

\* value of a run of digits
RECURSIVE DigitsVal(_)
DigitsVal(ds) ==
    IF ds = <<>> THEN 0
    ELSE 10 * DigitsVal(SubSeq(ds, 1, Len(ds) - 1)) + DigitVal(ds[Len(ds)])

\* the longest prefix of s whose symbols all satisfy Test
RECURSIVE TakeWhile(_, _)
TakeWhile(s, keep) ==
    IF s = <<>> \/ Head(s) \notin keep THEN <<>>
    ELSE <<Head(s)>> \o TakeWhile(Tail(s), keep)

Drop(s, n) == SubSeq(s, n + 1, Len(s))

SymbolsOf(s) == {s[i] : i \in 1..Len(s)}

\* fmt scanning: blanks before a verb are skipped
SkipBlanks(s) == Drop(s, Len(TakeWhile(s, {SP})))

\* fmt's %s verb, scanning: the run of non-blank symbols at the head of s
ScanWord(s) == TakeWhile(s, SymbolsOf(s) \ {SP})

\* fmt's %d verb, scanning: the run of digits at the head of s
ScanDigits(s) == TakeWhile(s, Digits)

\* time.Time.MarshalText of the i-th reading of the clock
TimeText(i) == <<"t">> \o FormatUint(i)

\* time.Time.UnmarshalText accepts exactly the texts MarshalText produces
IsTimeText(w) == Len(w) >= 2 /\ w[1] = "t" /\ SymbolsOf(Tail(w)) \subseteq Digits

TimeOfText(w) == DigitsVal(Tail(w))

----------------------------------------------------------------------------
(* Maps *)

EmptyMap == [k \in {} |-> k]

MapPut(m, k, v) == [x \in DOMAIN m \cup {k} |-> IF x = k THEN v ELSE m[x]]

MapDel(m, k) == [x \in DOMAIN m \ {k} |-> m[x]]

----------------------------------------------------------------------------
(* Operations and log lines *)

UnknownOp == 0
CheckoutOp == 1
CheckinOp == 2
ResetOp == 3

opString(op) ==
    CASE op = CheckoutOp -> Str("checkout")
      [] op = CheckinOp -> Str("checkin")
      [] op = ResetOp -> Str("reset")
      [] OTHER -> Str("unknown-op")

opTypeFromString(s) ==
    CASE s = Str("checkout") -> CheckoutOp
      [] s = Str("checkin") -> CheckinOp
      [] s = Str("reset") -> ResetOp
      [] OTHER -> UnknownOp

Nil == <<>>

libraryOp(op, uuid, label, client) == [op |-> op, uuid |-> uuid, label |-> label, client |-> client]

\* the line write formats for op at clock reading t
logLine(t, op) ==
    TimeText(t) \o <<SP>> \o op.uuid \o <<SP>> \o opString(op.op) \o <<SP>>
        \o FormatUint(op.label) \o <<SP>> \o op.client

\* libraryT.write on lib = [vchk, log, werr, now]; iofail: the file system
\* refuses the write.  A bufio.Writer that failed once fails ever after.
write(lib, op, iofail) ==
    LET t == lib.now + 1
        failed == lib.werr \/ iofail
    IN  [lib |-> [lib EXCEPT !.now = t,
                             !.werr = failed,
                             !.log = IF failed THEN @ ELSE Append(@, logLine(t, op))],
         err |-> IF failed THEN Str("write error") ELSE Nil]

parseLogLine(line) ==
    LET s1 == SkipBlanks(line)
        timeStr == ScanWord(s1)
        s2 == SkipBlanks(Drop(s1, Len(timeStr)))
        uuid == ScanWord(s2)
        s3 == SkipBlanks(Drop(s2, Len(uuid)))
        opStr == ScanWord(s3)
        s4 == SkipBlanks(Drop(s3, Len(opStr)))
        labelStr == ScanDigits(s4)
        s5 == SkipBlanks(Drop(s4, Len(labelStr)))
        client == ScanWord(s5)
    IN  IF timeStr = <<>> \/ uuid = <<>> \/ opStr = <<>> \/ labelStr = <<>> \/ client = <<>>
        THEN [err |-> Str("could not parse log line"), op |-> Nil]
        ELSE IF ~IsTimeText(timeStr)
        THEN [err |-> Str("parsing time"), op |-> Nil]
        ELSE [err |-> Nil,
              op |-> [t |-> TimeOfText(timeStr), op |-> opTypeFromString(opStr), uuid |-> uuid,
                      label |-> DigitsVal(labelStr), client |-> client]]

----------------------------------------------------------------------------
(* The reservation table: checkout, checkin, reset and the queries *)

\* checkout's reading of the table: checkouts, found := library.vchk[uuid];
\* client, labelUsed := checkouts[label]
lookup(t, uuid, label) ==
    LET found == uuid \in DOMAIN t
        labelUsed == found /\ label \in DOMAIN t[uuid]
    IN  [found |-> found, labelUsed |-> labelUsed,
         client |-> IF labelUsed THEN t[uuid][label] ELSE <<>>]

errCheckedOut(uuid, label, client) ==
    <<"uuid", SP>> \o uuid \o <<",", SP, "label", SP>> \o FormatUint(label)
        \o <<SP, "-", SP, "already", SP, "checked", SP, "out", SP, "by", SP>> \o client

errNotOwner(uuid, label, client, clientid) ==
    <<"uuid", SP>> \o uuid \o <<",", SP, "label", SP>> \o FormatUint(label)
        \o <<SP, "checked", SP, "out", SP, "to", SP>> \o client \o <<",", SP, "not", SP>> \o clientid
        \o <<SP, "so", SP, "cannot", SP, "checkin">>

errNotCheckedOut(uuid, label, client) ==
    <<"uuid", SP>> \o uuid \o <<",", SP, "label", SP>> \o FormatUint(label)
        \o <<SP, "has", SP, "not", SP, "been", SP, "checked", SP, "out", SP, "so", SP, "can't", SP,
             "be", SP, "checked", SP, "in", SP, "by", SP>> \o client

errNoCheckout(uuid, label, clientid) ==
    <<"uuid", SP>> \o uuid \o <<SP, "has", SP, "no", SP, "active", SP, "checkout", SP, "so", SP,
        "can't", SP, "checkin", SP, "label", SP>> \o FormatUint(label) \o <<",", SP, "client", SP>> \o clientid

\* checkout as it would be if the message named the requesting client
checkoutErr_namesRequester(lk, uuid, label, clientid) ==
    IF lk.found /\ lk.labelUsed /\ lk.client # clientid
    THEN errCheckedOut(uuid, label, clientid)
    ELSE Nil

\* checkout as it would be if every held label were refused, the holder's own request included
checkoutErr_refusesHolder(lk, uuid, label, clientid) ==
    IF lk.found /\ lk.labelUsed
    THEN errCheckedOut(uuid, label, lk.client)
    ELSE Nil

\* the error checkout returns after reading lk
checkoutErr(lk, uuid, label, clientid) ==
    IF lk.found /\ lk.labelUsed /\ lk.client # clientid
    THEN errCheckedOut(uuid, label, lk.client)
    ELSE Nil

\* the assignments checkout makes to the table after reading lk without error
checkoutStore(t, lk, uuid, label, clientid) ==
    IF lk.found
    THEN IF lk.labelUsed \/ uuid \notin DOMAIN t THEN t
         ELSE [t EXCEPT ![uuid] = MapPut(@, label, clientid)]
    ELSE MapPut(t, uuid, MapPut(EmptyMap, label, clientid))

\* checkin as it would be without the comparison of client and clientid
checkinErr_anyClient(lk, uuid, label, clientid) ==
    IF lk.found
    THEN IF lk.labelUsed THEN Nil ELSE errNotCheckedOut(uuid, label, lk.client)
    ELSE errNoCheckout(uuid, label, clientid)

\* the error checkin returns after reading lk
checkinErr(lk, uuid, label, clientid) ==
    IF lk.found
    THEN IF lk.labelUsed
         THEN IF lk.client # clientid THEN errNotOwner(uuid, label, lk.client, clientid) ELSE Nil
         ELSE errNotCheckedOut(uuid, label, lk.client)
    ELSE errNoCheckout(uuid, label, clientid)

\* checkin as it would be if it dropped every label of the namespace
checkinStore_wholeNamespace(t, uuid, label) ==
    IF uuid \in DOMAIN t THEN [t EXCEPT ![uuid] = EmptyMap] ELSE t

\* delete(library.vchk[uuid], label)
checkinStore(t, uuid, label) ==
    IF uuid \in DOMAIN t THEN [t EXCEPT ![uuid] = MapDel(@, label)] ELSE t

\* reset as it would be if it made a new table
resetStore_clearsAll(t, uuid) == EmptyMap

\* reset as it would be if it deleted the entries of a map it had copied
resetStore_keepsTable(t, uuid) == t

\* delete(library.vchk, uuid)
resetStore(t, uuid) == MapDel(t, uuid)

\* the log step as it would be if it wrote whatever modifyLog says
appendToLog_always(lib, op, modifyLog, iofail) == write(lib, op, iofail)

\* the log step as it would be if it never wrote
appendToLog_never(lib, op, modifyLog, iofail) == [lib |-> lib, err |-> Nil]

\* the log step shared by the three mutators; the error of write is dropped
appendToLog(lib, op, modifyLog, iofail) ==
    IF modifyLog THEN write(lib, op, iofail) ELSE [lib |-> lib, err |-> Nil]

\* checkout, checkin, reset on lib = [vchk, log, werr, now], run under the
\* write lock from Lock to the deferred Unlock.  werr in the result is what
\* the call of write returned, which the caller never sees.
checkout(lib, uuid, label, clientid, modifyLog, iofail) ==
    LET lk == lookup(lib.vchk, uuid, label)
        err == checkoutErr(lk, uuid, label, clientid)
        w == appendToLog([lib EXCEPT !.vchk = checkoutStore(@, lk, uuid, label, clientid)],
                         libraryOp(CheckoutOp, uuid, label, clientid), modifyLog, iofail)
    IN  IF err # Nil THEN [lib |-> lib, err |-> err, werr |-> Nil]
        ELSE [lib |-> w.lib, err |-> Nil, werr |-> w.err]

checkin(lib, uuid, label, clientid, modifyLog, iofail) ==
    LET lk == lookup(lib.vchk, uuid, label)
        err == checkinErr(lk, uuid, label, clientid)
        w == appendToLog([lib EXCEPT !.vchk = checkinStore(@, uuid, label)],
                         libraryOp(CheckinOp, uuid, label, clientid), modifyLog, iofail)
    IN  IF err # Nil THEN [lib |-> lib, err |-> err, werr |-> Nil]
        ELSE [lib |-> w.lib, err |-> Nil, werr |-> w.err]

reset(lib, uuid, modifyLog, iofail) ==
    LET w == appendToLog([lib EXCEPT !.vchk = resetStore(@, uuid)],
                         libraryOp(ResetOp, uuid, 0, Str("n/a")), modifyLog, iofail)
    IN  [lib |-> w.lib, err |-> Nil, werr |-> w.err]

getUUIDs(t) == DOMAIN t

\* getCheckout as it would be if it reported the namespace rather than the label
getCheckout_anyLabel(t, uuid, label) ==
    LET lk == lookup(t, uuid, label)
    IN  [client |-> lk.client, found |-> lk.found]

getCheckout(t, uuid, label) ==
    LET lk == lookup(t, uuid, label)
    IN  [client |-> lk.client, found |-> lk.labelUsed]

getCheckouts(t, uuid) ==
    IF uuid \in DOMAIN t THEN [checkouts |-> t[uuid], found |-> TRUE]
    ELSE [checkouts |-> EmptyMap, found |-> FALSE]

\* the set of {Label, Client} objects checkoutsT.MarshalJSON lists
MarshalJSON(c) == {<<label, c[label]>> : label \in DOMAIN c}

----------------------------------------------------------------------------
(* Start-up and history *)

\* the symbol that ends the last element of a file whose last line has no newline
NoNewline == "<eof>"

EOF == Str("EOF")

\* ReadString as it would be if it returned the text before the end of the
\* file as a line
ReadString_returnsPartial(lines) ==
    IF lines = <<>> THEN [line |-> <<>>, err |-> EOF]
    ELSE IF Head(lines) # <<>> /\ Head(lines)[Len(Head(lines))] = NoNewline
    THEN [line |-> SubSeq(Head(lines), 1, Len(Head(lines)) - 1), err |-> Nil]
    ELSE [line |-> Head(lines), err |-> Nil]

\* r.ReadString('\n') on the rest of the file: io.EOF at the end of the
\* file, and also, with the text read so far, on a last line without newline
ReadString(lines) ==
    IF lines = <<>> THEN [line |-> <<>>, err |-> EOF]
    ELSE IF Head(lines) # <<>> /\ Head(lines)[Len(Head(lines))] = NoNewline
    THEN [line |-> SubSeq(Head(lines), 1, Len(Head(lines)) - 1), err |-> EOF]
    ELSE [line |-> Head(lines), err |-> Nil]

\* the loop of initLibrary as it would be if it returned the error of a
\* replayed call
RECURSIVE replayLines_strict(_, _)
replayLines_strict(lines, lib) ==
    LET rd == ReadString(lines)
        p == parseLogLine(rd.line)
        r == CASE p.op.op = CheckoutOp ->
                    checkout(lib, p.op.uuid, p.op.label, p.op.client, FALSE, FALSE)
               [] p.op.op = CheckinOp ->
                    checkin(lib, p.op.uuid, p.op.label, p.op.client, FALSE, FALSE)
               [] OTHER -> reset(lib, p.op.uuid, FALSE, FALSE)
    IN  IF rd.err = EOF THEN [err |-> Nil, lib |-> lib]
        ELSE IF p.err # Nil THEN [err |-> p.err, lib |-> lib]
        ELSE IF p.op.op = UnknownOp
        THEN [err |-> Str("bad log op found in initLibrary"), lib |-> lib]
        ELSE IF r.err # Nil THEN [err |-> r.err, lib |-> lib]
        ELSE replayLines_strict(Tail(lines), r.lib)

\* the loop of initLibrary over the rest of the file; the calls act on lib
\* with modifyLog false and their errors are not looked at
RECURSIVE replayLines(_, _)
replayLines(lines, lib) ==
    LET rd == ReadString(lines)
        p == parseLogLine(rd.line)
    IN  IF rd.err = EOF THEN [err |-> Nil, lib |-> lib]
        ELSE IF p.err # Nil THEN [err |-> p.err, lib |-> lib]
        ELSE CASE p.op.op = CheckoutOp ->
                    replayLines(Tail(lines),
                        checkout(lib, p.op.uuid, p.op.label, p.op.client, FALSE, FALSE).lib)
               [] p.op.op = CheckinOp ->
                    replayLines(Tail(lines),
                        checkin(lib, p.op.uuid, p.op.label, p.op.client, FALSE, FALSE).lib)
               [] p.op.op = ResetOp ->
                    replayLines(Tail(lines), reset(lib, p.op.uuid, FALSE, FALSE).lib)
               [] OTHER -> [err |-> Str("bad log op found in initLibrary"), lib |-> lib]

\* initLibrary on a log file with the given lines: the error it returns,
\* the table it builds and the content of the file when it returns
initLibrary(lines) ==
    LET r == replayLines(lines, [vchk |-> EmptyMap, log |-> lines, werr |-> FALSE, now |-> 0])
    IN  [err |-> r.err, vchk |-> r.lib.vchk, log |-> r.lib.log]

\* the entries writeHx prints for uuid from the lines of the file:
\* Op, and Label and Client for checkout and checkin
RECURSIVE writeHxLines(_, _, _)
writeHxLines(lines, uuid, out) ==
    IF ReadString(lines).err = EOF THEN [err |-> Nil, out |-> out]
    ELSE LET p == parseLogLine(ReadString(lines).line)
         IN  IF p.err # Nil THEN [err |-> p.err, out |-> out]
             ELSE IF p.op.uuid = uuid
             THEN writeHxLines(Tail(lines), uuid,
                      Append(out, IF p.op.op \in {CheckoutOp, CheckinOp}
                                  THEN [Time |-> p.op.t, Op |-> opString(p.op.op),
                                        Label |-> p.op.label, Client |-> p.op.client]
                                  ELSE [Time |-> p.op.t, Op |-> opString(p.op.op)]))
             ELSE writeHxLines(Tail(lines), uuid, out)

writeHx(lines, uuid) == writeHxLines(lines, uuid, <<>>)

----------------------------------------------------------------------------
(* The requests of the model *)

UUIDs == {Str("u1"), Str("u2")}

Labels == {1, 2}

\* client ids are arbitrary strings taken from the URL path, blanks included
Clients == {Str("a"), <<"b", SP, "c">>}

Procs == {"g1", "g2"}

Lib == [vchk |-> vchk, log |-> log, werr |-> werr, now |-> now]

SetLib(lib) == vchk' = lib.vchk /\ log' = lib.log /\ werr' = lib.werr /\ now' = lib.now

\* a request as the handler parsed it from the URL
call(h, uuid, label, client) == [h |-> h, uuid |-> uuid, label |-> label, client |-> client]

NoCall == call("none", <<>>, 0, <<>>)

NoLocals == [k |-> "none"]

\* a served request: what the library call returned (err), what write
\* returned inside it (werr), the HTTP status and the JSON body
response(c, err, status, werror, body) ==
    [h |-> c.h, uuid |-> c.uuid, label |-> c.label, client |-> c.client, err |-> err,
     status |-> status, werr |-> werror, body |-> body]

\* the handlers answer 200 unless the library call returned an error:
\* http.StatusConflict from putCheckoutHandler, BadRequest from the others
statusOf(h, err) == IF err = Nil THEN 200 ELSE IF h = "putCheckout" THEN 409 ELSE 400

Init ==
    /\ vchk = EmptyMap
    /\ log = <<>>
    /\ werr = FALSE
    /\ now = 0
    /\ up = TRUE
    /\ ret = response(call("main", <<>>, 0, <<>>), Nil, 0, Nil, {})
    /\ hist = <<>>
    /\ pc = [p \in Procs |-> "idle"]
    /\ req = [p \in Procs |-> NoCall]
    /\ loc = [p \in Procs |-> NoLocals]
    /\ wlock = {}
    /\ logged = <<>>
    /\ seen = [p \in Procs |-> {}]

\* a mutating call returned r: record it if it returned nil.  The file
\* system can refuse a write only in a call that writes.
Record(r, op, iofail) ==
    /\ r.err # Nil \/ Len(hist) < MaxOps
    /\ iofail => (r.err = Nil /\ ~werr)
    /\ hist' = IF r.err = Nil THEN Append(hist, op) ELSE hist
    /\ logged' = IF r.err = Nil /\ r.werr = Nil THEN Append(logged, Len(hist) + 1) ELSE logged

\* one request served from Lock to Unlock without another in between
putCheckoutHandler(uuid, label, client, iofail) ==
    /\ up
    /\ LET r == checkout(Lib, uuid, label, client, TRUE, iofail)
       IN  /\ Record(r, libraryOp(CheckoutOp, uuid, label, client), iofail)
           /\ SetLib(r.lib)
           /\ ret' = response(call("putCheckout", uuid, label, client), r.err,
                              statusOf("putCheckout", r.err), r.werr, {})
    /\ UNCHANGED <<up, pc, req, loc, wlock, seen>>

putCheckinHandler(uuid, label, client, iofail) ==
    /\ up
    /\ LET r == checkin(Lib, uuid, label, client, TRUE, iofail)
       IN  /\ Record(r, libraryOp(CheckinOp, uuid, label, client), iofail)
           /\ SetLib(r.lib)
           /\ ret' = response(call("putCheckin", uuid, label, client), r.err,
                              statusOf("putCheckin", r.err), r.werr, {})
    /\ UNCHANGED <<up, pc, req, loc, wlock, seen>>

resetHandler(uuid, iofail) ==
    /\ up
    /\ LET r == reset(Lib, uuid, TRUE, iofail)
       IN  /\ Record(r, libraryOp(ResetOp, uuid, 0, Str("n/a")), iofail)
           /\ SetLib(r.lib)
           /\ ret' = response(call("reset", uuid, 0, <<>>), r.err,
                              statusOf("reset", r.err), r.werr, {})
    /\ UNCHANGED <<up, pc, req, loc, wlock, seen>>

\* the process is stopped and started again on the same log file
main ==
    /\ up
    /\ LET r == initLibrary(log)
       IN  /\ vchk' = r.vchk
           /\ log' = r.log
           /\ up' = (r.err = Nil)
           /\ ret' = response(call("main", <<>>, 0, <<>>), r.err, 0, Nil, {})
    /\ werr' = FALSE
    /\ UNCHANGED <<now, hist, pc, req, loc, wlock, logged, seen>>

Next ==
    \/ \E uuid \in UUIDs, label \in Labels, client \in Clients, iofail \in BOOLEAN :
           putCheckoutHandler(uuid, label, client, iofail)
    \/ \E uuid \in UUIDs, label \in Labels, client \in Clients, iofail \in BOOLEAN :
           putCheckinHandler(uuid, label, client, iofail)
    \/ \E uuid \in UUIDs, iofail \in BOOLEAN : resetHandler(uuid, iofail)
    \/ main

Spec == Init /\ [][Next]_vars

----------------------------------------------------------------------------
(* Claims about the requests served one at a time *)

Holds(t, uuid, label, client) == uuid \in DOMAIN t /\ label \in DOMAIN t[uuid] /\ t[uuid][label] = client

HeldByOther(t, uuid, label, client) ==
    uuid \in DOMAIN t /\ label \in DOMAIN t[uuid] /\ t[uuid][label] # client

\* the namespace -> label -> client mapping of a table
Reservations(t) ==
    UNION {{<<uuid, label, t[uuid][label]>> : label \in DOMAIN t[uuid]} : uuid \in DOMAIN t}

\* C2: in every state of a serving process, initLibrary on the log file
\* succeeds and builds the namespace -> label -> client mapping of the live table.
C2_ReplayRebuildsTable ==
    up => /\ initLibrary(log).err = Nil
          /\ Reservations(initLibrary(log).vchk) = Reservations(vchk)

\* the step serves request h with the arguments that ret' records
Serves(h) ==
    /\ ret'.h = h
    /\ \E iofail \in BOOLEAN :
           CASE h = "putCheckout" -> putCheckoutHandler(ret'.uuid, ret'.label, ret'.client, iofail)
             [] h = "putCheckin" -> putCheckinHandler(ret'.uuid, ret'.label, ret'.client, iofail)
             [] h = "reset" -> resetHandler(ret'.uuid, iofail)

\* C3: a checkout of a label held by another client returns the error that
\* names the holder (409 to the client) and leaves table and log as they were.
C3_ConflictNamesHolderNoChange ==
    [][(Serves("putCheckout") /\ HeldByOther(vchk, ret'.uuid, ret'.label, ret'.client))
       => /\ ret'.err = errCheckedOut(ret'.uuid, ret'.label, vchk[ret'.uuid][ret'.label])
          /\ ret'.status = 409
          /\ vchk' = vchk
          /\ log' = log]_vars

C3_Witness ==
    /\ ret.h = "putCheckout"
    /\ ret.status = 409
    /\ HeldByOther(vchk, ret.uuid, ret.label, ret.client)
    /\ log # <<>>

\* C4: a checkin returns an error, and leaves table and log as they were,
\* when the namespace is absent, the label is not held, or another client holds it.
C4_CheckinNeedsOwner ==
    [][(Serves("putCheckin") /\ ~Holds(vchk, ret'.uuid, ret'.label, ret'.client))
       => /\ ret'.err # Nil
          /\ ret'.status = 400
          /\ vchk' = vchk
          /\ log' = log]_vars

C4_Witness ==
    /\ ret.h = "putCheckin"
    /\ ret.err # Nil
    /\ HeldByOther(vchk, ret.uuid, ret.label, ret.client)
    /\ \E uuid \in DOMAIN vchk : uuid # ret.uuid

\* C5: a checkout by the client that holds the label returns nil and leaves
\* the table as it was.
C5_RecheckoutIdempotent ==
    [][(Serves("putCheckout") /\ Holds(vchk, ret'.uuid, ret'.label, ret'.client))
       => /\ ret'.err = Nil
          /\ ret'.status = 200
          /\ vchk' = vchk
          /\ Holds(vchk', ret'.uuid, ret'.label, ret'.client)]_vars

C5_Witness ==
    /\ ret.h = "putCheckout"
    /\ ret.err = Nil
    /\ Len(hist) >= 2
    /\ hist[Len(hist)] = hist[Len(hist) - 1]
    /\ hist[Len(hist)].op = CheckoutOp

\* C6: reset returns nil in every state, and right after it getCheckout
\* finds no label of the namespace.
C6_ResetTotal ==
    [][Serves("reset")
       => /\ ret'.err = Nil
          /\ ret'.status = 200
          /\ \A label \in Labels : ~getCheckout(vchk', ret'.uuid, label).found]_vars

C6_Witness ==
    /\ ret.h = "reset"
    /\ ret.err = Nil
    /\ Len(hist) >= 2
    /\ hist[Len(hist)].op = ResetOp
    /\ hist[Len(hist) - 1].op = CheckoutOp
    /\ hist[Len(hist) - 1].uuid = ret.uuid
    /\ \A label \in Labels : ~getCheckout(vchk, ret.uuid, label).found

\* the calls of hist on namespace uuid, as history entries without the time
RECURSIVE histOf(_, _)
histOf(h, uuid) ==
    IF h = <<>> THEN <<>>
    ELSE (IF Head(h).uuid # uuid THEN <<>>
          ELSE IF Head(h).op = ResetOp THEN <<[Op |-> opString(ResetOp)]>>
          ELSE <<[Op |-> opString(Head(h).op), Label |-> Head(h).label, Client |-> Head(h).client]>>)
         \o histOf(Tail(h), uuid)

\* history entries without the time
untimed(out) ==
    [i \in 1..Len(out) |->
        IF out[i].Op = opString(ResetOp) THEN [Op |-> out[i].Op]
        ELSE [Op |-> out[i].Op, Label |-> out[i].Label, Client |-> out[i].Client]]

\* C7: for every namespace writeHx returns, without error, exactly the
\* runtime calls on it that returned nil, once each and in order.
C7_HistoryComplete ==
    up => \A uuid \in UUIDs :
              /\ writeHx(log, uuid).err = Nil
              /\ untimed(writeHx(log, uuid).out) = histOf(hist, uuid)

\* C10: a runtime call in which write returned an error returns an error.
C10_WriteErrorSurfaced ==
    (ret.h \in {"putCheckout", "putCheckin", "reset"} /\ ret.werr # Nil) => ret.err # Nil

----------------------------------------------------------------------------
(* The requests as goroutines: one step per statement that touches shared  *)
(* state.  A goroutine that holds a reference to the map of a namespace    *)
(* (getCheckouts returns the map itself, not a copy) reads the live map    *)
(* while alias holds; reset unlinks that map from the table, after which   *)
(* the goroutine keeps the unlinked map m.                                 *)

\* runtime mutating calls in one behaviour of the goroutine model
MaxCalls == 3

\* runtime mutating calls in one behaviour of the goroutine model with state requests
MaxStateCalls == 2

ConcUUIDs == {Str("u1")}

Mutators == {"putCheckout", "putCheckin", "reset"}

\* calls that may still add to hist
Pending == {p \in Procs : req[p].h \in Mutators /\ pc[p] \in {"lock", "read", "store"}}

opOf(c) ==
    CASE c.h = "putCheckout" -> libraryOp(CheckoutOp, c.uuid, c.label, c.client)
      [] c.h = "putCheckin" -> libraryOp(CheckinOp, c.uuid, c.label, c.client)
      [] OTHER -> libraryOp(ResetOp, c.uuid, 0, Str("n/a"))

\* the handler is entered with its URL parameters and calls into the library
begin(p, c, budget) ==
    /\ up
    /\ pc[p] = "idle"
    /\ Len(hist) + Cardinality(Pending) < budget
    /\ pc' = [pc EXCEPT ![p] = "lock"]
    /\ req' = [req EXCEPT ![p] = c]
    /\ UNCHANGED <<vchk, log, werr, now, up, ret, hist, loc, wlock, logged, seen>>

\* the mutators as they would be without library.Lock()
canLock_unguarded(p) == TRUE

\* library.Lock() returns only while no goroutine holds the lock
canLock(p) == wlock = {}

Lock(p) ==
    /\ up
    /\ pc[p] = "lock"
    /\ canLock(p)
    /\ wlock' = wlock \cup {p}
    /\ pc' = [pc EXCEPT ![p] = IF req[p].h = "reset" THEN "store" ELSE "read"]
    /\ loc' = [loc EXCEPT ![p] = [lk |-> lookup(EmptyMap, <<>>, 0), err |-> Nil, id |-> 0, werr |-> Nil]]
    /\ UNCHANGED <<vchk, log, werr, now, up, ret, hist, req, logged, seen>>

\* checkout and checkin read the table and return early on an error
read(p) ==
    /\ up
    /\ pc[p] = "read"
    /\ LET c == req[p]
           lk == lookup(vchk, c.uuid, c.label)
           err == IF c.h = "putCheckout" THEN checkoutErr(lk, c.uuid, c.label, c.client)
                  ELSE checkinErr(lk, c.uuid, c.label, c.client)
       IN  /\ loc' = [loc EXCEPT ![p].lk = lk, ![p].err = err]
           /\ pc' = [pc EXCEPT ![p] = IF err # Nil THEN "unlock" ELSE "store"]
    /\ UNCHANGED <<vchk, log, werr, now, up, ret, hist, req, wlock, logged, seen>>

Reading == {q \in Procs : req[q].h = "state"}

\* the map goroutine q marshals
mapOf(q) == IF loc[q].alias THEN vchk[req[q].uuid] ELSE loc[q].m

\* the table is assigned: the call takes effect
store(p) ==
    /\ up
    /\ pc[p] = "store"
    /\ LET c == req[p]
           t == CASE c.h = "putCheckout" -> checkoutStore(vchk, loc[p].lk, c.uuid, c.label, c.client)
                  [] c.h = "putCheckin" -> checkinStore(vchk, c.uuid, c.label)
                  [] OTHER -> resetStore(vchk, c.uuid)
           unlinked == {q \in Reading : /\ pc[q] \in {"marshal", "range"}
                                            /\ req[q].uuid = c.uuid
                                            /\ loc[q].alias
                                            /\ c.uuid \notin DOMAIN t}
       IN  /\ vchk' = t
           /\ hist' = Append(hist, opOf(c))
           /\ loc' = [q \in Procs |->
                        IF q = p THEN [loc[q] EXCEPT !.id = Len(hist) + 1]
                        ELSE IF q \in unlinked THEN [loc[q] EXCEPT !.alias = FALSE, !.m = vchk[c.uuid]]
                        ELSE loc[q]]
           /\ seen' = [q \in Procs |->
                         IF q \in Reading /\ req[q].uuid = c.uuid
                         THEN seen[q] \cup {MarshalJSON(getCheckouts(t, c.uuid).checkouts)}
                         ELSE seen[q]]
    /\ pc' = [pc EXCEPT ![p] = "log"]
    /\ UNCHANGED <<log, werr, now, up, ret, req, wlock, logged>>

\* library.write(op), its error dropped
appendLog(p, iofail) ==
    /\ up
    /\ pc[p] = "log"
    /\ LET w == appendToLog(Lib, opOf(req[p]), TRUE, iofail)
       IN  /\ SetLib(w.lib)
           /\ loc' = [loc EXCEPT ![p].werr = w.err]
           /\ logged' = IF w.err = Nil THEN Append(logged, loc[p].id) ELSE logged
    /\ pc' = [pc EXCEPT ![p] = "unlock"]
    /\ UNCHANGED <<up, ret, hist, req, wlock, seen>>

\* the deferred library.Unlock() and the handler's reply
Unlock(p) ==
    /\ up
    /\ pc[p] = "unlock"
    /\ wlock' = wlock \ {p}
    /\ ret' = response(req[p], loc[p].err, statusOf(req[p].h, loc[p].err), loc[p].werr, {})
    /\ pc' = [pc EXCEPT ![p] = "idle"]
    /\ req' = [req EXCEPT ![p] = NoCall]
    /\ loc' = [loc EXCEPT ![p] = NoLocals]
    /\ UNCHANGED <<vchk, log, werr, now, up, hist, logged, seen>>

\* stateHandler is entered for GET /state/uuid
stateHandler(p, uuid) ==
    /\ up
    /\ pc[p] = "idle"
    /\ pc' = [pc EXCEPT ![p] = "rlock"]
    /\ req' = [req EXCEPT ![p] = call("state", uuid, 0, <<>>)]
    /\ seen' = [seen EXCEPT ![p] = {MarshalJSON(getCheckouts(vchk, uuid).checkouts)}]
    /\ UNCHANGED <<vchk, log, werr, now, up, ret, hist, loc, wlock, logged>>

\* getCheckouts, under the read lock from RLock to RUnlock; "[]" is the
\* reply when the namespace is not in the table
getCheckoutsCall(p) ==
    /\ up
    /\ pc[p] = "rlock"
    /\ wlock = {}
    /\ LET r == getCheckouts(vchk, req[p].uuid)
       IN  IF r.found
           THEN /\ pc' = [pc EXCEPT ![p] = "marshal"]
                /\ loc' = [loc EXCEPT ![p] = [alias |-> TRUE, m |-> EmptyMap, n |-> 0,
                                              todo |-> {}, out |-> {}]]
                /\ UNCHANGED <<ret, req>>
           ELSE /\ ret' = response(req[p], Nil, 200, Nil, {})
                /\ pc' = [pc EXCEPT ![p] = "idle"]
                /\ req' = [req EXCEPT ![p] = NoCall]
                /\ loc' = loc
    /\ UNCHANGED <<vchk, log, werr, now, up, hist, wlock, logged, seen>>

\* MarshalJSON: reserves := make([]reserveJSON, len(c)), outside any lock
marshal(p) ==
    /\ up
    /\ pc[p] = "marshal"
    /\ loc' = [loc EXCEPT ![p].n = Cardinality(DOMAIN mapOf(p)), ![p].todo = Labels]
    /\ pc' = [pc EXCEPT ![p] = "range"]
    /\ UNCHANGED <<vchk, log, werr, now, up, ret, hist, req, wlock, logged, seen>>

\* MarshalJSON: the range loop comes to the slot of label; an entry beyond
\* len(reserves) panics, which recoverHandler turns into a 500
range(p, label) ==
    /\ up
    /\ pc[p] = "range"
    /\ label \in loc[p].todo
    /\ IF label \in DOMAIN mapOf(p)
       THEN IF Cardinality(loc[p].out) >= loc[p].n
            THEN /\ ret' = response(req[p], Str("index out of range"), 500, Nil, {})
                 /\ pc' = [pc EXCEPT ![p] = "idle"]
                 /\ req' = [req EXCEPT ![p] = NoCall]
                 /\ loc' = [loc EXCEPT ![p] = NoLocals]
            ELSE /\ loc' = [loc EXCEPT ![p].todo = @ \ {label},
                                       ![p].out = @ \cup {<<label, mapOf(p)[label]>>}]
                 /\ UNCHANGED <<ret, pc, req>>
       ELSE /\ loc' = [loc EXCEPT ![p].todo = @ \ {label}]
            /\ UNCHANGED <<ret, pc, req>>
    /\ UNCHANGED <<vchk, log, werr, now, up, hist, wlock, logged, seen>>

\* MarshalJSON returns: slots the loop did not fill are zero values
reply(p) ==
    /\ up
    /\ pc[p] = "range"
    /\ loc[p].todo = {}
    /\ ret' = response(req[p], Nil, 200, Nil,
                       loc[p].out \cup (IF Cardinality(loc[p].out) < loc[p].n THEN {<<0, <<>>>>} ELSE {}))
    /\ pc' = [pc EXCEPT ![p] = "idle"]
    /\ req' = [req EXCEPT ![p] = NoCall]
    /\ loc' = [loc EXCEPT ![p] = NoLocals]
    /\ UNCHANGED <<vchk, log, werr, now, up, hist, wlock, logged, seen>>

\* the Go runtime stops the process when it catches a map write during an
\* iteration of the same map ("concurrent map iteration and map write")
throw ==
    /\ up
    /\ \E p \in Procs, q \in Reading :
           /\ pc[p] = "store"
           /\ pc[q] = "range"
           /\ loc[q].alias
           /\ req[q].uuid = req[p].uuid
           /\ \/ req[p].h = "putCheckin"
              \/ /\ req[p].h = "putCheckout"
                 /\ checkoutStore(vchk, loc[p].lk, req[p].uuid, req[p].label, req[p].client) # vchk
    /\ up' = FALSE
    /\ UNCHANGED <<vchk, log, werr, now, ret, hist, pc, req, loc, wlock, logged, seen>>

NextConc ==
    \/ \E p \in Procs, uuid \in ConcUUIDs, label \in Labels, client \in Clients :
           begin(p, call("putCheckout", uuid, label, client), MaxCalls)
    \/ \E p \in Procs, uuid \in ConcUUIDs, label \in Labels, client \in Clients :
           begin(p, call("putCheckin", uuid, label, client), MaxCalls)
    \/ \E p \in Procs, uuid \in ConcUUIDs : begin(p, call("reset", uuid, 0, <<>>), MaxCalls)
    \/ \E p \in Procs : Lock(p)
    \/ \E p \in Procs : read(p)
    \/ \E p \in Procs : store(p)
    \/ \E p \in Procs, iofail \in BOOLEAN : appendLog(p, iofail)
    \/ \E p \in Procs : Unlock(p)

\* concurrent checkout, checkin and reset requests
SpecConc == Init /\ [][NextConc]_vars

NextState ==
    \/ \E p \in Procs, uuid \in ConcUUIDs, label \in Labels, client \in Clients :
           begin(p, call("putCheckout", uuid, label, client), MaxStateCalls)
    \/ \E p \in Procs, uuid \in ConcUUIDs, label \in Labels, client \in Clients :
           begin(p, call("putCheckin", uuid, label, client), MaxStateCalls)
    \/ \E p \in Procs, uuid \in ConcUUIDs : begin(p, call("reset", uuid, 0, <<>>), MaxStateCalls)
    \/ \E p \in Procs : Lock(p)
    \/ \E p \in Procs : read(p)
    \/ \E p \in Procs : store(p)
    \/ \E p \in Procs, iofail \in BOOLEAN : appendLog(p, iofail)
    \/ \E p \in Procs : Unlock(p)
    \/ \E p \in Procs, uuid \in ConcUUIDs : stateHandler(p, uuid)
    \/ \E p \in Procs : getCheckoutsCall(p)
    \/ \E p \in Procs : marshal(p)
    \/ \E p \in Procs, label \in Labels : range(p, label)
    \/ \E p \in Procs : reply(p)
    \/ throw

\* GET /state requests concurrent with checkout, checkin and reset requests
SpecState == Init /\ [][NextState]_vars

----------------------------------------------------------------------------
(* Claims about concurrent requests *)

\* C1: between two checkouts of the same namespace and label that returned
\* nil to different clients, a checkin of that label or a reset of that
\* namespace took effect.
C1_MutualExclusion ==
    \A i, j \in 1..Len(hist) :
        (/\ i < j
         /\ hist[i].op = CheckoutOp /\ hist[j].op = CheckoutOp
         /\ hist[i].uuid = hist[j].uuid /\ hist[i].label = hist[j].label
         /\ hist[i].client # hist[j].client)
        => \E k \in (i + 1)..(j - 1) :
               /\ hist[k].uuid = hist[i].uuid
               /\ \/ hist[k].op = ResetOp
                  \/ hist[k].op = CheckinOp /\ hist[k].label = hist[i].label

C1_Witness ==
    /\ \E i, j \in 1..Len(hist) :
           /\ i < j
           /\ hist[i].op = CheckoutOp /\ hist[j].op = CheckoutOp
           /\ hist[i].uuid = hist[j].uuid /\ hist[i].label = hist[j].label
           /\ hist[i].client # hist[j].client
    /\ \E p \in Procs : /\ pc[p] = "log"
                        /\ req[p].h = "putCheckout"
                        /\ opOf(req[p]) = hist[Len(hist)]

\* C8: the lines of the log are in the order in which their calls took
\* effect on the table: line i is the line of call logged[i] of hist, and
\* logged is strictly increasing.
C8_LogOrderIsEffectOrder ==
    /\ Len(logged) = Len(log)
    /\ \A i \in 1..Len(logged) :
           /\ logged[i] \in 1..Len(hist)
           /\ parseLogLine(log[i]).err = Nil
           /\ parseLogLine(log[i]).op.op = hist[logged[i]].op
           /\ parseLogLine(log[i]).op.uuid = hist[logged[i]].uuid
           /\ parseLogLine(log[i]).op.label = hist[logged[i]].label
    /\ \A i, j \in 1..Len(logged) : (i < j) <=> (logged[i] < logged[j])

C8_Witness ==
    /\ Len(log) >= 2
    /\ \E p, q \in Procs : pc[p] = "lock" /\ pc[q] = "unlock" /\ loc[q].id = logged[Len(logged)]

\* C9: the pairs a GET /state request reports are the reservations its
\* namespace had at one instant between the entry of the handler and the reply.
C9_StateIsSnapshot ==
    [][\A p \in Procs : reply(p) => ret'.body \in seen[p]]_vars

\* C11: whenever a call that took effect on the table is visible outside
\* its critical section (its goroutine no longer holds the write lock), its
\* line is in the log file.
C11_DurableBeforeVisible ==
    \A i \in 1..Len(hist) :
        \/ \E k \in 1..Len(logged) : logged[k] = i
        \/ \E p \in wlock : pc[p] \in {"log", "unlock"} /\ loc[p].id = i

----------------------------------------------------------------------------
(* The read-only requests, served one at a time in one run of the process *)

errNoSuchCheckout(uuid, label) ==
    <<"no", SP, "checkout", SP, "for", SP, "uuid", SP>> \o uuid \o <<",", SP, "label", SP>>
        \o FormatUint(label) \o <<SP, "exists">>

\* GET /checkout/uuid/label: the {Label, Client} object of the holder, or
\* BadRequest when getCheckout finds none
getCheckoutClientHandler(uuid, label) ==
    /\ up
    /\ LET r == getCheckout(vchk, uuid, label)
           c == call("getCheckout", uuid, label, <<>>)
       IN  ret' = IF ~r.found
                  THEN response(c, errNoSuchCheckout(uuid, label), 400, Nil, {})
                  ELSE response(c, Nil, 200, Nil, {<<label, r.client>>})
    /\ UNCHANGED <<vchk, log, werr, now, up, hist, pc, req, loc, wlock, logged, seen>>

\* GET /uuids: the JSON array of getUUIDs
uuidsHandler ==
    /\ up
    /\ ret' = response(call("uuids", <<>>, 0, <<>>), Nil, 200, Nil, getUUIDs(vchk))
    /\ UNCHANGED <<vchk, log, werr, now, up, hist, pc, req, loc, wlock, logged, seen>>

NextQuery ==
    \/ \E uuid \in UUIDs, label \in Labels, client \in Clients, iofail \in BOOLEAN :
           putCheckoutHandler(uuid, label, client, iofail)
    \/ \E uuid \in UUIDs, label \in Labels, client \in Clients, iofail \in BOOLEAN :
           putCheckinHandler(uuid, label, client, iofail)
    \/ \E uuid \in UUIDs, iofail \in BOOLEAN : resetHandler(uuid, iofail)
    \/ \E uuid \in UUIDs, label \in Labels : getCheckoutClientHandler(uuid, label)
    \/ uuidsHandler

\* checkout, checkin, reset and the queries of one run of the process
SpecQuery == Init /\ [][NextQuery]_vars

\* C12: GET /checkout/uuid/label for a label that no client holds is
\* answered with status 200 and the empty JSON object.
C12_UnreservedIsEmptyObject ==
    (ret.h = "getCheckout" /\ ~getCheckout(vchk, ret.uuid, ret.label).found)
    => (ret.status = 200 /\ ret.body = {})

\* C13: every namespace GET /uuids lists has at least one label checked out.
C13_UUIDsHaveReservations ==
    ret.h = "uuids" => \A uuid \in ret.body : \E label \in Labels : getCheckout(vchk, uuid, label).found

\* C14 as stated: every namespace with a line in the log is listed by GET /uuids.
C14_UUIDsWithAnyHistory ==
    ret.h = "uuids" =>
        \A i \in 1..Len(log) : parseLogLine(log[i]).err = Nil => parseLogLine(log[i]).op.uuid \in ret.body

\* the runtime calls on uuid since its last reset include a checkout
CheckedOutSinceReset(h, uuid) ==
    \E i \in 1..Len(h) :
        /\ h[i].uuid = uuid /\ h[i].op = CheckoutOp
        /\ \A j \in (i + 1)..Len(h) : ~(h[j].uuid = uuid /\ h[j].op = ResetOp)

\* C14, amended: within one run of the process started on an empty log,
\* GET /uuids lists exactly the namespaces on which a checkout returned nil
\* since their last reset; a reset removes the namespace from the list.
C14_UUIDsCheckedOutSinceReset ==
    ret.h = "uuids" => ret.body = {uuid \in UUIDs : CheckedOutSinceReset(hist, uuid)}

C14_Witness ==
    /\ ret.h = "uuids"
    /\ Len(hist) = 2
    /\ hist[1].op = CheckoutOp /\ hist[2].op = ResetOp
    /\ hist[1].uuid = hist[2].uuid
    /\ hist[1].uuid \notin ret.body
    /\ \E i \in 1..Len(log) : parseLogLine(log[i]).op.uuid = hist[1].uuid

\* entry e of hist affects label of uuid: a checkout or checkin of the
\* label, or a reset of the namespace
Affects(e, uuid, label) == e.uuid = uuid /\ (e.op = ResetOp \/ e.label = label)

\* the position in h of the most recent call that affects label of uuid, if any
LastAffecting(h, uuid, label) ==
    {i \in 1..Len(h) : /\ Affects(h[i], uuid, label)
                       /\ \A j \in (i + 1)..Len(h) : ~Affects(h[j], uuid, label)}

\* C15: within one run of the process, GET /checkout/uuid/label reports
\* client c exactly when the most recent runtime call that returned nil and
\* affects (uuid, label) is a checkout by c; it reports no checkout when the
\* namespace is absent or the label is not held; it leaves table and log as
\* they were.
C15_QueryReflectsOwnership ==
    [][\A uuid \in UUIDs, label \in Labels :
           getCheckoutClientHandler(uuid, label) =>
               /\ \A c \in Clients :
                      (ret'.status = 200 /\ ret'.body = {<<label, c>>})
                      <=> \E i \in LastAffecting(hist, uuid, label) :
                              hist[i].op = CheckoutOp /\ hist[i].client = c
               /\ (uuid \notin DOMAIN vchk \/ label \notin DOMAIN vchk[uuid]) <=> ret'.status = 400
               /\ ret'.status \in {200, 400}
               /\ vchk' = vchk
               /\ log' = log]_vars

C15_Witness ==
    /\ ret.h = "getCheckout"
    /\ ret.status = 400
    /\ ret.uuid \in DOMAIN vchk
    /\ Len(hist) = 2
    /\ hist[1].op = CheckoutOp /\ hist[2].op = CheckinOp
    /\ Affects(hist[1], ret.uuid, ret.label) /\ Affects(hist[2], ret.uuid, ret.label)

----------------------------------------------------------------------------
(* Start-up on a log file with any content *)

GoodLine == logLine(1, libraryOp(CheckoutOp, Str("u1"), 1, Str("a")))

\* lines as write produces them, and lines with a field missing, a field
\* too many, a time that is none, an operation that is none
LogLines ==
    {GoodLine,
     logLine(2, libraryOp(CheckinOp, Str("u1"), 1, Str("a"))),
     logLine(3, libraryOp(ResetOp, Str("u1"), 0, Str("n/a"))),
     logLine(4, libraryOp(CheckoutOp, Str("u1"), 1, Str("b"))),
     logLine(5, libraryOp(CheckinOp, Str("u1"), 1, Str("b"))),
     SubSeq(GoodLine, 1, Len(GoodLine) - 2),
     GoodLine \o <<SP, "c">>,
     <<"yesterday">> \o Drop(GoodLine, 2),
     logLine(1, [op |-> UnknownOp, uuid |-> Str("u1"), label |-> 1, client |-> Str("a")])}

\* what a file can end in when its last write was cut short
Fragments == {GoodLine \o <<NoNewline>>, SubSeq(GoodLine, 1, 6) \o <<NoNewline>>}

Files ==
    {f \in UNION {[1..n -> LogLines \cup Fragments] : n \in 0..MaxLines} :
        \A i \in 1..(Len(f) - 1) : f[i] \in LogLines}

\* the process is started on a log file with any of these contents
InitReplay ==
    /\ vchk = EmptyMap
    /\ log \in Files
    /\ werr = FALSE
    /\ now = 0
    /\ up = TRUE
    /\ ret = response(NoCall, Nil, 0, Nil, {})
    /\ hist = <<>>
    /\ pc = [p \in Procs |-> "idle"]
    /\ req = [p \in Procs |-> NoCall]
    /\ loc = [p \in Procs |-> NoLocals]
    /\ wlock = {}
    /\ logged = <<>>
    /\ seen = [p \in Procs |-> {}]

NextReplay == main

SpecReplay == InitReplay /\ [][NextReplay]_vars

\* the blank-separated fields of a string
RECURSIVE Fields(_)
Fields(s) ==
    IF SkipBlanks(s) = <<>> THEN <<>>
    ELSE <<ScanWord(SkipBlanks(s))>> \o Fields(Drop(SkipBlanks(s), Len(ScanWord(SkipBlanks(s)))))

\* a line of the file that is not "time uuid op label client" with a time
\* and an operation the program knows
Malformed(line) ==
    LET f == Fields(ReadString(<<line>>).line)
    IN  \/ Len(f) # 5
        \/ ~IsTimeText(f[1])
        \/ opTypeFromString(f[3]) = UnknownOp

\* C16: when some line of the log file is malformed, whatever its position,
\* initLibrary returns an error and the process does not serve.
C16_CorruptLogAborts ==
    [][(main /\ \E i \in 1..Len(log) : Malformed(log[i])) => (ret'.err # Nil /\ ~up')]_vars

----------------------------------------------------------------------------
(* Claims about the effect of one call *)

\* C17: a checkin of a label by the client that holds it returns nil (200
\* to the client); when it takes effect the label is no longer held and
\* every other label of the namespace has the holder it had.
C17_CheckinRemovesOne ==
    [][\A p \in Procs :
           req[p].h = "putCheckin" =>
               /\ (read(p) /\ Holds(vchk, req[p].uuid, req[p].label, req[p].client))
                  => (loc'[p].err = Nil /\ pc'[p] = "store")
               /\ store(p)
                  => /\ ~getCheckout(vchk', req[p].uuid, req[p].label).found
                     /\ \A label \in Labels \ {req[p].label} :
                            getCheckout(vchk', req[p].uuid, label) = getCheckout(vchk, req[p].uuid, label)
               /\ (Unlock(p) /\ loc[p].err = Nil)
                  => (ret'.status = 200 /\ ~getCheckout(vchk', req[p].uuid, req[p].label).found)]_vars

C17_Witness ==
    \E p \in Procs :
        /\ pc[p] = "log"
        /\ req[p].h = "putCheckin"
        /\ ~getCheckout(vchk, req[p].uuid, req[p].label).found
        /\ \E label \in Labels \ {req[p].label} : getCheckout(vchk, req[p].uuid, label).found

\* C18: the log has one line per runtime call that returned nil, in call
\* order, carrying that call's namespace, operation, label and client; calls
\* that returned an error have none.
C18_OneLinePerSuccess ==
    /\ Len(log) = Len(hist)
    /\ \A i \in 1..Len(log) : \E t \in 1..now : log[i] = logLine(t, hist[i])

\* C19 as stated: a checkout by the client that holds the label leaves the
\* table, the log and the history of the namespace as they were.
C19_RecheckoutAppendsNothing ==
    [][(Serves("putCheckout") /\ Holds(vchk, ret'.uuid, ret'.label, ret'.client))
       => /\ vchk' = vchk
          /\ log' = log
          /\ writeHx(log', ret'.uuid) = writeHx(log, ret'.uuid)]_vars

\* C19, amended: a checkout by the client that holds the label returns nil
\* and leaves the table as it was, but it is logged like every checkout that
\* returns nil: unless the write fails, one checkout line of the call is
\* appended to the log.
C19_RecheckoutIsLogged ==
    [][(Serves("putCheckout") /\ Holds(vchk, ret'.uuid, ret'.label, ret'.client))
       => /\ ret'.err = Nil
          /\ vchk' = vchk
          /\ log' = IF ret'.werr # Nil THEN log
                    ELSE Append(log, logLine(now', libraryOp(CheckoutOp, ret'.uuid, ret'.label, ret'.client)))]_vars

C19_Witness ==
    /\ ret.h = "putCheckout"
    /\ ret.err = Nil /\ ret.werr = Nil
    /\ Len(hist) = 2 /\ hist[1] = hist[2]
    /\ Len(log) = 2
    /\ log[2] = logLine(now, libraryOp(CheckoutOp, ret.uuid, ret.label, ret.client))
    /\ Len(writeHx(log, ret.uuid).out) = 2

\* C20: start-up leaves the log file as it found it, and a start-up that
\* follows a start-up without a runtime call in between builds the same table.
C20_ReplayWritesNothing ==
    [][main => /\ log' = log
               /\ ret.h = "main" => vchk' = vchk]_vars

C20_Witness ==
    /\ ret.h = "main"
    /\ up
    /\ Len(log) = MaxLines
    /\ vchk # EmptyMap
    /\ initLibrary(log).log = log
    /\ initLibrary(log).vchk = vchk

\* an entry of the log applied to table t when the runtime call would
\* return nil, and skipped otherwise
applyEntry(t, e) ==
    CASE e.op = CheckoutOp ->
             IF HeldByOther(t, e.uuid, e.label, e.client) THEN t
             ELSE MapPut(t, e.uuid,
                         MapPut(IF e.uuid \in DOMAIN t THEN t[e.uuid] ELSE EmptyMap, e.label, e.client))
      [] e.op = CheckinOp ->
             IF Holds(t, e.uuid, e.label, e.client)
             THEN MapPut(t, e.uuid, MapDel(t[e.uuid], e.label))
             ELSE t
      [] OTHER -> MapDel(t, e.uuid)

RECURSIVE applyEntries(_, _)
applyEntries(lines, t) ==
    IF lines = <<>> THEN t
    ELSE applyEntries(Tail(lines), applyEntry(t, parseLogLine(Head(lines)).op))

\* every line of the file is complete and well-formed
WellFormed(lines) ==
    \A i \in 1..Len(lines) : ReadString(<<lines[i]>>).err = Nil /\ ~Malformed(lines[i])

\* C21: on a log of well-formed entries initLibrary returns nil whether or
\* not an entry fails as a runtime call (a checkout of a label held by
\* another client, a checkin by a client that does not hold the label); the
\* table it builds is the one in which each failing entry changed nothing
\* and every other entry was applied.
C21_ReplayIgnoresErrors ==
    [][(main /\ WellFormed(log))
       => /\ ret'.err = Nil
          /\ up'
          /\ vchk' = applyEntries(log, EmptyMap)]_vars

C21_Witness ==
    /\ ret.h = "main"
    /\ up
    /\ Len(log) = 2
    /\ WellFormed(log)
    /\ parseLogLine(log[1]).op.op = CheckinOp
    /\ parseLogLine(log[2]).op.op = CheckoutOp
    /\ vchk = applyEntries(log, EmptyMap)
    /\ vchk # EmptyMap

\* C22: parseLogLine reads every line a runtime call wrote back without
\* error and with the namespace, operation, label and client of that call.
C22_LogLineRoundTrip ==
    \A i \in 1..Len(logged) :
        i <= Len(log) =>
            /\ parseLogLine(log[i]).err = Nil
            /\ parseLogLine(log[i]).op.uuid = hist[logged[i]].uuid
            /\ parseLogLine(log[i]).op.op = hist[logged[i]].op
            /\ parseLogLine(log[i]).op.label = hist[logged[i]].label
            /\ parseLogLine(log[i]).op.client = hist[logged[i]].client

----------------------------------------------------------------------------
(* The history request *)

\* namespaces are arbitrary strings taken from the URL path, blanks included
HistUUIDs == {Str("u1"), <<"u1", SP, "y", SP, "5">>}

\* GET /history/uuid: the entries writeHx prints.  "[" is written to the
\* reply before the file is read, which fixes the status at 200; an error
\* of writeHx adds the text of BadRequest to the reply
historyHandler(uuid) ==
    /\ up
    /\ LET r == writeHx(log, uuid)
       IN  ret' = response(call("history", uuid, 0, <<>>), r.err, 200, Nil, r.out)
    /\ UNCHANGED <<vchk, log, werr, now, up, hist, pc, req, loc, wlock, logged, seen>>

NextHistory ==
    \/ \E uuid \in HistUUIDs, label \in Labels, client \in Clients, iofail \in BOOLEAN :
           putCheckoutHandler(uuid, label, client, iofail)
    \/ \E uuid \in HistUUIDs, label \in Labels, client \in Clients, iofail \in BOOLEAN :
           putCheckinHandler(uuid, label, client, iofail)
    \/ \E uuid \in HistUUIDs, iofail \in BOOLEAN : resetHandler(uuid, iofail)
    \/ \E uuid \in HistUUIDs : historyHandler(uuid)

\* checkout, checkin, reset and history requests of one run of the process
SpecHistory == Init /\ [][NextHistory]_vars

\* C23: writeHx returns an error for a log line whose operation keyword is
\* not checkout, checkin or reset, so every entry of a history reply has one
\* of these three as its Op.
C23_HistoryOpsKnown ==
    ret.h = "history" =>
        /\ (\E i \in 1..Len(log) : parseLogLine(log[i]).err = Nil
                                   /\ parseLogLine(log[i]).op.op = UnknownOp) => ret.err # Nil
        /\ \A i \in 1..Len(ret.body) :
               ret.body[i].Op \in {opString(CheckoutOp), opString(CheckinOp), opString(ResetOp)}

\* C24: a checkout, checkin or reset request on a namespace, whatever it
\* returns, leaves every other namespace as it was: in the table or not,
\* and with the same label -> client mapping.
C24_NamespaceIsolation ==
    [][\A h \in Mutators :
           Serves(h) => \A uuid \in UUIDs \ {ret'.uuid} :
                            getCheckouts(vchk', uuid) = getCheckouts(vchk, uuid)]_vars

C24_Witness ==
    /\ ret.h = "reset"
    /\ Len(hist) = 2
    /\ hist[1].op = CheckoutOp /\ hist[2].op = ResetOp
    /\ hist[1].uuid # ret.uuid
    /\ hist[2].uuid = ret.uuid
    /\ Holds(vchk, hist[1].uuid, hist[1].label, hist[1].client)

----------------------------------------------------------------------------
(* The nightly clear: resetLocks, run by the cron goroutine next to the    *)
(* request goroutines.  It takes the lock once in getUUIDs and once in     *)
(* each reset; a reset is one step from Lock to Unlock.                    *)

\* runtime mutating calls in one behaviour of the model with the nightly clear
MaxCronCalls == 2

\* namespaces the running clear has still to reset
CronTodo == UNION {IF pc[q] = "each" THEN loc[q].todo ELSE {} : q \in Procs}

\* the cron job fires
resetLocks(p) ==
    /\ up
    /\ pc[p] = "idle"
    /\ \A q \in Procs : req[q].h # "resetLocks"
    /\ pc' = [pc EXCEPT ![p] = "uuids"]
    /\ req' = [req EXCEPT ![p] = call("resetLocks", <<>>, 0, <<>>)]
    /\ UNCHANGED <<vchk, log, werr, now, up, ret, hist, loc, wlock, logged, seen>>

\* getUUIDs(), under the read lock from RLock to RUnlock: the keys of the
\* table, copied to a slice
getUUIDsCall(p) ==
    /\ up
    /\ pc[p] = "uuids"
    /\ wlock = {}
    /\ Len(hist) + Cardinality(Pending) + Cardinality(getUUIDs(vchk)) <= MaxCronCalls
    /\ loc' = [loc EXCEPT ![p] = [todo |-> getUUIDs(vchk)]]
    /\ pc' = [pc EXCEPT ![p] = "each"]
    /\ UNCHANGED <<vchk, log, werr, now, up, ret, hist, req, wlock, logged, seen>>

\* one turn of the loop: reset(uuid, modifyLog) with modifyLog true
resetEach(p, uuid, iofail) ==
    /\ up
    /\ pc[p] = "each"
    /\ uuid \in loc[p].todo
    /\ canLock(p)
    /\ iofail => ~werr
    /\ LET r == reset(Lib, uuid, TRUE, iofail)
       IN  /\ SetLib(r.lib)
           /\ hist' = Append(hist, libraryOp(ResetOp, uuid, 0, Str("n/a")))
           /\ logged' = IF r.werr = Nil THEN Append(logged, Len(hist) + 1) ELSE logged
    /\ loc' = [loc EXCEPT ![p].todo = @ \ {uuid}]
    /\ UNCHANGED <<up, ret, pc, req, wlock, seen>>

\* the loop is over and resetLocks returns
resetLocksReturn(p) ==
    /\ up
    /\ pc[p] = "each"
    /\ loc[p].todo = {}
    /\ ret' = response(req[p], Nil, 0, Nil, {})
    /\ pc' = [pc EXCEPT ![p] = "idle"]
    /\ req' = [req EXCEPT ![p] = NoCall]
    /\ loc' = [loc EXCEPT ![p] = NoLocals]
    /\ UNCHANGED <<vchk, log, werr, now, up, hist, wlock, logged, seen>>

\* a request begins while the calls in progress leave room for it
beginCron(p, c) ==
    /\ Len(hist) + Cardinality(Pending) + Cardinality(CronTodo) < MaxCronCalls
    /\ begin(p, c, MaxCronCalls)

NextCron ==
    \/ \E p \in Procs, uuid \in UUIDs, label \in Labels, client \in Clients :
           beginCron(p, call("putCheckout", uuid, label, client))
    \/ \E p \in Procs, uuid \in UUIDs, label \in Labels, client \in Clients :
           beginCron(p, call("putCheckin", uuid, label, client))
    \/ \E p \in Procs, uuid \in UUIDs : beginCron(p, call("reset", uuid, 0, <<>>))
    \/ \E p \in Procs : Lock(p)
    \/ \E p \in Procs : read(p)
    \/ \E p \in Procs : store(p)
    \/ \E p \in Procs, iofail \in BOOLEAN : appendLog(p, iofail)
    \/ \E p \in Procs : Unlock(p)
    \/ \E p \in Procs : resetLocks(p)
    \/ \E p \in Procs : getUUIDsCall(p)
    \/ \E p \in Procs, uuid \in UUIDs, iofail \in BOOLEAN : resetEach(p, uuid, iofail)
    \/ \E p \in Procs : resetLocksReturn(p)

\* the nightly clear concurrent with checkout, checkin and reset requests
SpecCron == Init /\ [][NextCron]_vars

\* C25: when resetLocks returns, the table holds no reservation in any namespace.
C25_ResetLocksClearsAll ==
    [][\A p \in Procs : resetLocksReturn(p) => Reservations(vchk') = {}]_vars

----------------------------------------------------------------------------
(* History requests as goroutines.  writeHx takes no lock: it opens the    *)
(* file and reads it line by line while checkout, checkin and reset append *)
(* to it.  The bytes of a line need not become visible to a reader all at  *)
(* once (a line longer than the buffer of the bufio.Writer is written in   *)
(* several writes), so a reader can find the beginning of a line at the    *)
(* end of the file.                                                        *)

\* runtime mutating calls in one behaviour of the model with history requests
MaxHxCalls == 2

\* one label is enough to tell the entries of a history apart from those of other namespaces
HxLabels == {1}

\* the line the goroutine in write is appending
lineOf(p) == logLine(now + 1, opOf(req[p]))

\* WriteString/Flush: the beginning of the line has reached the file
writePart(p) ==
    /\ up
    /\ pc[p] = "log"
    /\ ~werr
    /\ log' = Append(log, SubSeq(lineOf(p), 1, 6) \o <<NoNewline>>)
    /\ pc' = [pc EXCEPT ![p] = "flush"]
    /\ UNCHANGED <<vchk, werr, now, up, ret, hist, req, loc, wlock, logged, seen>>

\* WriteString/Flush: the rest of the line has reached the file and write returns
writeRest(p) ==
    /\ up
    /\ pc[p] = "flush"
    /\ LET w == appendToLog([Lib EXCEPT !.log = SubSeq(log, 1, Len(log) - 1)], opOf(req[p]), TRUE, FALSE)
       IN  /\ SetLib(w.lib)
           /\ loc' = [loc EXCEPT ![p].werr = w.err]
           /\ logged' = Append(logged, loc[p].id)
    /\ pc' = [pc EXCEPT ![p] = "unlock"]
    /\ UNCHANGED <<up, ret, hist, req, wlock, seen>>

\* historyHandler is entered for GET /history/uuid and writeHx opens the file
historyBegin(p, uuid) ==
    /\ up
    /\ pc[p] = "idle"
    /\ pc' = [pc EXCEPT ![p] = "scan"]
    /\ req' = [req EXCEPT ![p] = call("history", uuid, 0, <<>>)]
    /\ loc' = [loc EXCEPT ![p] = [pos |-> 0, out |-> <<>>, err |-> Nil, eof |-> FALSE]]
    /\ UNCHANGED <<vchk, log, werr, now, up, ret, hist, wlock, logged, seen>>

\* one turn of the loop of writeHx on the file as it is now: the next line
\* is read, parsed and printed if it is of the namespace
scanLine(p) ==
    /\ up
    /\ pc[p] = "scan"
    /\ ~loc[p].eof /\ loc[p].err = Nil
    /\ LET rest == Drop(log, loc[p].pos)
           r == writeHxLines(<<Head(rest)>>, req[p].uuid, loc[p].out)
       IN  loc' = IF ReadString(rest).err = EOF THEN [loc EXCEPT ![p].eof = TRUE]
                  ELSE [loc EXCEPT ![p].pos = @ + 1, ![p].out = r.out, ![p].err = r.err]
    /\ UNCHANGED <<vchk, log, werr, now, up, ret, hist, pc, req, wlock, logged, seen>>

\* writeHx returns and the handler replies
historyReturn(p) ==
    /\ up
    /\ pc[p] = "scan"
    /\ loc[p].eof \/ loc[p].err # Nil
    /\ ret' = response(req[p], loc[p].err, 200, Nil, loc[p].out)
    /\ pc' = [pc EXCEPT ![p] = "idle"]
    /\ req' = [req EXCEPT ![p] = NoCall]
    /\ loc' = [loc EXCEPT ![p] = NoLocals]
    /\ UNCHANGED <<vchk, log, werr, now, up, hist, wlock, logged, seen>>

NextHx ==
    \/ \E p \in Procs, uuid \in UUIDs, label \in HxLabels, client \in Clients :
           begin(p, call("putCheckout", uuid, label, client), MaxHxCalls)
    \/ \E p \in Procs, uuid \in UUIDs, label \in HxLabels, client \in Clients :
           begin(p, call("putCheckin", uuid, label, client), MaxHxCalls)
    \/ \E p \in Procs, uuid \in UUIDs : begin(p, call("reset", uuid, 0, <<>>), MaxHxCalls)
    \/ \E p \in Procs : Lock(p)
    \/ \E p \in Procs : read(p)
    \/ \E p \in Procs : store(p)
    \/ \E p \in Procs, iofail \in BOOLEAN : appendLog(p, iofail)
    \/ \E p \in Procs : writePart(p)
    \/ \E p \in Procs : writeRest(p)
    \/ \E p \in Procs : Unlock(p)
    \/ \E p \in Procs, uuid \in UUIDs : historyBegin(p, uuid)
    \/ \E p \in Procs : scanLine(p)
    \/ \E p \in Procs : historyReturn(p)

\* GET /history requests concurrent with checkout, checkin and reset requests
SpecHx == Init /\ [][NextHx]_vars

\* the first k lines of the file, when they are complete lines
Prefixes(lines) ==
    {SubSeq(lines, 1, k) : k \in {n \in 0..Len(lines) :
                                     \A i \in 1..n : ReadString(<<lines[i]>>).err = Nil}}

\* C26: a history request that runs while calls append to the log returns
\* without error, and what it returns is what writeHx prints for its
\* namespace from the complete lines of a prefix of the file.
C26_HistoryIsPrefix ==
    [][\A p \in Procs :
           historyReturn(p) =>
               /\ ret'.err = Nil
               /\ \E lines \in Prefixes(log) : ret'.body = writeHx(lines, req[p].uuid).out]_vars

C26_Witness ==
    /\ ret.h = "history"
    /\ ret.err = Nil
    /\ Len(ret.body) = 1
    /\ \E p \in Procs : pc[p] = "flush" /\ req[p].uuid = ret.uuid
    /\ Len(log) = 2
    /\ ret.body = writeHx(SubSeq(log, 1, 1), ret.uuid).out

----------------------------------------------------------------------------
(* Progress.  The Go scheduler runs every goroutine that can run, and a    *)
(* sync.RWMutex hands the lock to a goroutine that keeps waiting for it    *)
(* (a waiting writer holds back new readers, a starved waiter is served    *)
(* first): weak fairness for the steps of a goroutine, strong fairness for *)
(* the steps that take the lock.  New requests are up to the clients.      *)

Fairness ==
    \A p \in Procs :
        /\ SF_vars(Lock(p))
        /\ SF_vars(getCheckoutsCall(p))
        /\ WF_vars(read(p))
        /\ WF_vars(store(p))
        /\ WF_vars(\E iofail \in BOOLEAN : appendLog(p, iofail))
        /\ WF_vars(Unlock(p))
        /\ WF_vars(marshal(p))
        /\ WF_vars(\E label \in Labels : range(p, label))
        /\ WF_vars(reply(p))

\* concurrent checkout, checkin and reset requests under a fair scheduler
SpecConcFair == Init /\ [][NextConc]_vars /\ Fairness

\* GET /state requests concurrent with checkout, checkin and reset requests
\* under a fair scheduler
SpecStateFair == Init /\ [][NextState]_vars /\ Fairness

\* C27: every request that has begun returns.
C27_EveryCallReturns ==
    \A p \in Procs : (pc[p] # "idle") ~> (pc[p] = "idle")

====
